---- MODULE Spec2Model ----
(***************************************************************************)
(* A model of Tomahawk's query-resolution pipeline,                        *)
(* src/src/libtomahawk/pipeline.cpp (class Tomahawk::Pipeline).            *)
(*                                                                         *)
(* Every handler of the class is an operator from a pipeline state (a      *)
(* record of the members) to the pipeline state it leaves behind, written  *)
(* under the name it has in the source.  The handlers run on threads, and  *)
(* a step of the model is one access to what the threads share: a critical *)
(* section of m_mut is one step, and every statement that reads or writes  *)
(* a member or the query outside the lock is a step of its own (the read   *)
(* of m_running that opens a handler, q->resolvingFinished(),              *)
(* nextResolver(), r->resolve( q ), m_qidsTimeout.insert() and contains(), *)
(* m_qids.contains() and value(), addResults(), playable()).  Between two  *)
(* steps of a thread any other thread may take steps.  A                   *)
(* FuncTimeout( 0, f ) is a call of f posted to the event loop of the      *)
(* pipeline's thread: it is counted in shuntCalls / shuntNextCalls /       *)
(* timeoutCalls and runs later.                                            *)
(***************************************************************************)
EXTENDS Integers, Sequences, FiniteSets, TLC

\* ------------------------------------------------------------------ bounds
NumQueries == 2
NumQueueQueries == 3
NumCapQueries == 5
MaxBatch == 2
MaxRegistry == 3
MaxShuntCalls == 1
MaxShuntNextCalls == 2
MaxTemporary == 2
QuietTicks == 2
NumThreads == 2

\* ------------------------------------------------------- program constants
DEFAULT_CONCURRENT_QUERIES == 4
MAX_CONCURRENT_QUERIES == 16

\* --------------------------------------------------------------- universes
Queries == 1 .. NumQueries
QueueQueries == 1 .. NumQueueQueries
CapQueries == 1 .. NumCapQueries
Resolvers == {1, 2, 3}
ResultIds == {1, 2}
Threads == 1 .. NumThreads
\* QThread::idealThreadCount() of the host: -1 when it cannot be detected.
IdealThreadCounts == {-1, 1, 2, 4}

\* Resolver::weight() and Resolver::timeout(), fixed per resolver: resolver 1
\* is the light one, 2 and 3 tie on weight; resolver 2 declares no timeout.
Weight(r) == IF r = 1 THEN 10 ELSE 20
Timeout(r) == IF r = 2 THEN 0 ELSE 100

\* Query::isFullTextQuery(): query 2 is the exhaustive-search request.
isFullTextQuery(q) == q = 2
\* A result that makes its query playable: result 1 does, result 2 does not.
GoodResult(x) == x = 1

VARIABLES
    m_running,               \* bool m_running
    m_maxConcurrentQueries,  \* int m_maxConcurrentQueries
    m_resolvers,             \* QList< Resolver* >: registration order
    m_queries_pending,       \* QList< query_ptr >
    m_qids,                  \* QMap< QID, query_ptr >: its keys
    m_qidsState,             \* QMap< QID, unsigned int >
    m_qidsTimeout,           \* QMap< QID, bool >: its keys (every value is true)
    m_queries_temporary,     \* QList< query_ptr >
    timerActive,             \* m_temporaryQueryTimer.isActive()
    resolvedBy,              \* per query: Query::resolvedBy(), in dispatch order
    resolveFinished,         \* per query: Query::resolvingFinished()
    results,                 \* per query: Query::results(), the result ids
    shuntCalls,              \* per query: posted calls of shunt( q )
    shuntNextCalls,          \* posted calls of shuntNext()
    timeoutCalls,            \* per query: armed timers of timeoutShunt( q )
    signals,                 \* the signals the last step emitted
    notified,                \* the queries whose onResolvingFinished() the last
                             \* handler called
    timerLeft,               \* m_temporaryQueryTimer: ticks until it fires
    answered,                \* per query: the resolvers whose answer was delivered
    expired,                 \* per query: the resolvers whose timer has fired
    threads                  \* per thread: the handler it is in and the locals
                             \* it holds between two steps

vars == << m_running, m_maxConcurrentQueries, m_resolvers, m_queries_pending,
           m_qids, m_qidsState, m_qidsTimeout, m_queries_temporary, timerActive,
           resolvedBy, resolveFinished, results, shuntCalls, shuntNextCalls,
           timeoutCalls, signals, notified, timerLeft, answered, expired, threads >>

\* ----------------------------------------------------------------- helpers
Range(seq) == { seq[i] : i \in 1 .. Len(seq) }

Contains(seq, x) == \E i \in 1 .. Len(seq) : seq[i] = x

\* QList::insert( i, x ): x becomes the element at 0-based index i.
InsertAt(seq, i, x) == SubSeq(seq, 1, i) \o << x >> \o SubSeq(seq, i + 1, Len(seq))

\* QList::removeAll( x )
RECURSIVE RemoveAll(_, _)
RemoveAll(seq, x) ==
    IF seq = << >> THEN << >>
    ELSE IF Head(seq) = x THEN RemoveAll(Tail(seq), x)
    ELSE << Head(seq) >> \o RemoveAll(Tail(seq), x)

\* QMap::insert( k, v ) and QMap::remove( k )
MapInsert(m, k, v) == [ x \in DOMAIN m \cup {k} |-> IF x = k THEN v ELSE m[x] ]
MapRemove(m, k) == [ x \in DOMAIN m \ {k} |-> m[x] ]

\* qBound( min, val, max )
qBound(lo, val, hi) == IF val < lo THEN lo ELSE IF val > hi THEN hi ELSE val

\* ------------------------------------------------------- the request object
\* Query::playable(): some result of the query is good enough to play.
playable(s, q) == \E x \in s.results[q] : GoodResult(x)

\* Query::addResults( results )
addResults(s, q, res) == [ s EXCEPT !.results[q] = @ \cup res ]

\* Query::setCurrentResolver( r ): r = 0 clears the assigned resolver, any
\* other r is recorded as attempted.
setCurrentResolver(s, q, r) ==
    IF r = 0 THEN s ELSE [ s EXCEPT !.resolvedBy[q] = Append(@, r) ]

\* Query::onResolvingFinished()
onResolvingFinished(s, q) ==
    [ s EXCEPT !.resolveFinished[q] = TRUE, !.notified = @ \cup {q} ]

\* A thread that is in no handler.  Inside a handler pc is the statement the
\* thread executes next and q, r, res, state its locals:
\*   "shuntNext"          shuntNext() is called (from resolve(), start() or
\*                        shunt(), named in from) and reads m_running
\*   "shuntNextLock"      the critical section of shuntNext()
\*   "shuntFinished"      shunt(): q->resolvingFinished()
\*   "shuntNextResolver"  shunt(): nextResolver( q )
\*   "shuntResolve"       shunt(): q->setCurrentResolver( r ); r->resolve( q )
\*   "shunt"              shunt(): r->resolve( q ) has returned
\*   "timeoutContains"    timeoutShunt(): m_qidsTimeout.contains( q->id() )
\*   "reportContains"     reportResults(): m_qids.contains( qid )
\*   "report"             reportResults(): m_qids.value( qid )
\*   "reportAdd"          reportResults(): q->addResults( results )
\*   "reportPlayable"     reportResults(): q->playable()
\*   "dec"                the critical section of decQIDState()
\*   "set"                setQIDState( q, state ), called from the function
\*                        named in from
\*   "segv"               the thread has dereferenced a null query_ptr
\* In reportResults() q is the qid up to line 176 and from there on the
\* query_ptr that m_qids.value( qid ) gave, 0 for the null one.
Idle == [ pc |-> "idle", q |-> 0, state |-> 0, r |-> 0, res |-> {}, from |-> "" ]

\* The thread of the pipeline object: its event loop runs the posted calls,
\* the timers and the slots.
Loop == CHOOSE t \in Threads : \A u \in Threads : t <= u

\* No thread has crashed the process.
Alive(s) == \A t \in Threads : s.threads[t].pc # "segv"

\* --------------------------------------------------------------- the state
Cur ==
    [ running |-> m_running,
      maxConcurrent |-> m_maxConcurrentQueries,
      resolvers |-> m_resolvers,
      pending |-> m_queries_pending,
      qids |-> m_qids,
      qidsState |-> m_qidsState,
      qidsTimeout |-> m_qidsTimeout,
      temporary |-> m_queries_temporary,
      timerActive |-> timerActive,
      resolvedBy |-> resolvedBy,
      resolveFinished |-> resolveFinished,
      results |-> results,
      shuntCalls |-> shuntCalls,
      shuntNextCalls |-> shuntNextCalls,
      timeoutCalls |-> timeoutCalls,
      signals |-> {},
      notified |-> {},
      timerLeft |-> timerLeft,
      answered |-> answered,
      expired |-> expired,
      threads |-> threads ]

\* What the callers of resolve() and addResolver() are held to: the requests
\* submitted as temporary ones between two sweeps and the resolvers registered
\* are few.  No step inside a handler is held back.
WithinBounds(s) ==
    /\ Len(s.temporary) <= MaxTemporary
    /\ Len(s.resolvers) <= MaxRegistry

\* The pipeline state s is the state after the step.
Commit(s) ==
    /\ Alive(Cur)
    /\ m_running' = s.running
    /\ m_maxConcurrentQueries' = s.maxConcurrent
    /\ m_resolvers' = s.resolvers
    /\ m_queries_pending' = s.pending
    /\ m_qids' = s.qids
    /\ m_qidsState' = s.qidsState
    /\ m_qidsTimeout' = s.qidsTimeout
    /\ m_queries_temporary' = s.temporary
    /\ timerActive' = s.timerActive
    /\ resolvedBy' = s.resolvedBy
    /\ resolveFinished' = s.resolveFinished
    /\ results' = s.results
    /\ shuntCalls' = s.shuntCalls
    /\ shuntNextCalls' = s.shuntNextCalls
    /\ timeoutCalls' = s.timeoutCalls
    /\ signals' = s.signals
    /\ notified' = s.notified
    /\ timerLeft' = s.timerLeft
    /\ answered' = s.answered
    /\ expired' = s.expired
    /\ threads' = s.threads

\* ---------------------------------------------------------------- handlers
\* "if ( !m_running ) return;", the first statement of reportResults(),
\* shuntNext(), timeoutShunt() and shunt().
stopped(s) == ~s.running

\* Mutant: a budget of zero still counts as an attempt left.
attemptsLeft_OrZero(state) == state >= 0

\* setQIDState(): the budget allows a further attempt.
attemptsLeft(state) == state > 0

\* Mutant: a finalized query is always taken off the ledger.
isTemporary_Never(s, q) == FALSE

\* setQIDState(): m_queries_temporary.contains( query )
isTemporary(s, q) == Contains(s.temporary, q)

\* Pipeline::setQIDState( query, state ): one critical section of m_mut.
setQIDState(s, q, state) ==
    LET t == [ s EXCEPT !.qidsTimeout = @ \ {q} ] IN
    IF attemptsLeft(state)
    THEN [ t EXCEPT !.qidsState = MapInsert(@, q, state),
                    !.shuntCalls[q] = @ + 1 ]
    ELSE LET u == onResolvingFinished([ t EXCEPT !.qidsState = MapRemove(@, q) ], q) IN
         [ u EXCEPT !.qids = IF isTemporary(u, q) THEN @ ELSE @ \ {q},
                    !.shuntNextCalls = @ + 1 ]

\* Thread t returns from its handler.
done(s, t) == [ s EXCEPT !.threads[t] = Idle ]

\* Thread t is about to call setQIDState( q, state ) in the function from.
calls(s, t, q, state, from) ==
    [ s EXCEPT !.threads[t] =
          [ Idle EXCEPT !.pc = "set", !.q = q, !.state = state, !.from = from ] ]

\* Thread t goes on to the statement pc of the handler it is in.
goes(s, t, pc) == [ s EXCEPT !.threads[t].pc = pc ]

\* Thread t enters a handler for query q and goes on to its statement pc.
enters(s, t, pc, q) == [ s EXCEPT !.threads[t] = [ Idle EXCEPT !.pc = pc, !.q = q ] ]

\* Pipeline::decQIDState( query ) on thread t, its critical section: the
\* budget is read and m_mut released before setQIDState() is called with the
\* budget less one.  query->id() on the null query_ptr that reportResults()
\* may hand over (q = 0) dereferences it, with m_mut taken.
decQIDState(s, t) ==
    LET q == s.threads[t].q IN
    IF q = 0 THEN goes(s, t, "segv")
    ELSE IF q \notin DOMAIN s.qidsState THEN done(s, t)
    ELSE calls(s, t, q, s.qidsState[q] - 1, "decQIDState")

\* shuntNext(): nothing holds a budget slot, so idle may be emitted.
nothingResolving(s) == DOMAIN s.qidsState = {}

\* Mutant: the dispatch pass never checks the cap.
capReached_Never(s) == FALSE

\* shuntNext(): "Check if we are ready to dispatch more queries".
capReached(s) == Cardinality(DOMAIN s.qidsState) >= s.maxConcurrent

\* Pipeline::shuntNext() on thread t, its first statement: m_running is read
\* without the lock.
shuntNext(s, t) ==
    IF stopped(s) THEN done(s, t)
    ELSE goes(s, t, "shuntNextLock")

\* Pipeline::shuntNext() on thread t, its critical section: q is taken off
\* the pending queue and m_mut released before setQIDState( q, rc ) is
\* called.
shuntNextLock(s, t) ==
    IF s.pending = << >>
    THEN IF nothingResolving(s)
         THEN done([ s EXCEPT !.signals = @ \cup {"idle"} ], t)
         ELSE done(s, t)
    ELSE IF capReached(s) THEN done(s, t)
    ELSE LET rc == Len(s.resolvers)
             q == Head(s.pending)
             u == setCurrentResolver([ s EXCEPT !.pending = Tail(@) ], q, 0)
         IN  calls(u, t, q, rc, "shuntNext")

\* Mutant: the scan does not skip the resolvers already tried.
alreadyResolvedBy_Never(s, q, r) == FALSE

\* nextResolver(): the query was dispatched to r before.
alreadyResolvedBy(s, q, r) == Contains(s.resolvedBy[q], r)

\* Mutant: the later resolver wins a tie on weight.
heavier_OrEqual(r, newResolver) == Weight(r) >= Weight(newResolver)

\* nextResolver(): r replaces the resolver chosen so far.
heavier(r, newResolver) == Weight(r) > Weight(newResolver)

\* Pipeline::nextResolver( query ): the scan of m_resolvers from index i on.
RECURSIVE nextResolverFrom(_, _, _, _)
nextResolverFrom(s, q, i, newResolver) ==
    IF i > Len(s.resolvers) THEN newResolver
    ELSE LET r == s.resolvers[i] IN
         IF alreadyResolvedBy(s, q, r) THEN nextResolverFrom(s, q, i + 1, newResolver)
         ELSE IF newResolver = 0 THEN nextResolverFrom(s, q, i + 1, r)
         ELSE IF heavier(r, newResolver) THEN nextResolverFrom(s, q, i + 1, r)
         ELSE nextResolverFrom(s, q, i + 1, newResolver)

nextResolver(s, q) == nextResolverFrom(s, q, 1, 0)

\* Mutant: no timer is armed.
armsTimeout_Never(r) == FALSE

\* shunt(): a FuncTimeout for timeoutShunt is armed for resolver r.
armsTimeout(r) == Timeout(r) > 0

\* Pipeline::shunt( q ) on thread t, its first statement: m_running is read
\* without the lock.
shunt(s, t, q) ==
    IF stopped(s) THEN done(s, t)
    ELSE enters(s, t, "shuntFinished", q)

\* Pipeline::shunt( q ) on thread t: q->resolvingFinished() is read; a query
\* that has finished is given no resolver and setQIDState( q, 0 ) is called.
shuntFinished(s, t) ==
    LET q == s.threads[t].q IN
    IF ~s.resolveFinished[q] THEN goes(s, t, "shuntNextResolver")
    ELSE calls(s, t, q, 0, "shunt")

\* Pipeline::shunt( q ) on thread t: r = nextResolver( q ), which reads
\* m_resolvers without the lock; with no resolver left setQIDState( q, 0 )
\* is called.
shuntNextResolver(s, t) ==
    LET q == s.threads[t].q
        r == nextResolver(s, q)
    IN  IF r # 0
        THEN [ s EXCEPT !.threads[t] = [ @ EXCEPT !.pc = "shuntResolve", !.r = r ] ]
        ELSE calls(s, t, q, 0, "shunt")

\* Pipeline::shunt( q ) on thread t: q->setCurrentResolver( r ) and
\* r->resolve( q ).
shuntResolve(s, t) ==
    goes(setCurrentResolver(s, s.threads[t].q, s.threads[t].r), t, "shunt")

\* Pipeline::shunt( q ) on thread t from the return of r->resolve( q ) on:
\* resolving is emitted, q is put into m_qidsTimeout without the lock and
\* the timer is armed; shuntNext() is called next.
shuntResolving(s, t) ==
    LET q == s.threads[t].q
        r == s.threads[t].r
    IN  [ s EXCEPT !.signals = @ \cup {"resolving"},
                   !.qidsTimeout = @ \cup {q},
                   !.timeoutCalls[q] = IF armsTimeout(r) THEN @ + 1 ELSE @,
                   !.threads[t] = [ Idle EXCEPT !.pc = "shuntNext", !.from = "shunt" ] ]

\* Pipeline::timeoutShunt( q ) on thread t, its first statement: m_running is
\* read without the lock.
timeoutShunt(s, t, q) ==
    IF stopped(s) THEN done(s, t)
    ELSE enters(s, t, "timeoutContains", q)

\* Pipeline::timeoutShunt( q ) on thread t: m_qidsTimeout.contains( q->id() ),
\* read without the lock; decQIDState( q ) is called next.
timeoutContains(s, t) ==
    IF s.threads[t].q \in s.qidsTimeout THEN goes(s, t, "dec")
    ELSE done(s, t)

\* Mutant: the ledger is not consulted.
knownQid_Always(s, qid) == TRUE

\* reportResults(): the qid is in the ledger.
knownQid(s, qid) == qid \in s.qids

\* reportResults(): the query is solved and need not try further resolvers.
solvedEarly(s, qid) == playable(s, qid) /\ ~isFullTextQuery(qid)

\* Pipeline::reportResults( qid, results ) on thread t, its first statement:
\* m_running is read without the lock.
reportResults(s, t, qid, res) ==
    IF stopped(s) THEN done(s, t)
    ELSE [ s EXCEPT !.threads[t] =
               [ Idle EXCEPT !.pc = "reportContains", !.q = qid, !.res = res ] ]

\* Pipeline::reportResults() on thread t: m_qids.contains( qid ), read
\* without the lock.
reportContains(s, t) ==
    IF ~knownQid(s, s.threads[t].q) THEN done(s, t)
    ELSE goes(s, t, "report")

\* Pipeline::reportResults() on thread t: q = m_qids.value( qid ), read
\* without the lock.  value() of a qid that has left m_qids since is a null
\* query_ptr (q = 0), which is bound and not dereferenced here; with results
\* q->addResults() is called next, without results decQIDState( q ).
reportResultsValue(s, t) ==
    LET q == IF s.threads[t].q \in s.qids THEN s.threads[t].q ELSE 0
        u == [ s EXCEPT !.threads[t].q = q ]
    IN  IF s.threads[t].res # {} THEN goes(u, t, "reportAdd")
        ELSE goes(u, t, "dec")

\* Pipeline::reportResults() on thread t: q->addResults( results ), which
\* dereferences q: a null query_ptr ends the process.
reportAdd(s, t) ==
    IF s.threads[t].q = 0 THEN goes(s, t, "segv")
    ELSE goes(addResults(s, s.threads[t].q, s.threads[t].res), t, "reportPlayable")

\* Pipeline::reportResults() on thread t: q->playable() and
\* !q->isFullTextQuery() are read; setQIDState( q, 0 ) or decQIDState( q ) is
\* called next.
reportPlayable(s, t) ==
    IF solvedEarly(s, s.threads[t].q)
    THEN calls(s, t, s.threads[t].q, 0, "reportResults")
    ELSE goes(s, t, "dec")

\* Mutant: a pending query is queued again.
alreadyPending_Never(s, q) == FALSE

\* resolve(): the query is in m_queries_pending already.
alreadyPending(s, q) == Contains(s.pending, q)

\* resolve(): m_temporaryQueryTimer is stopped if active and started: the
\* interval, CLEANUP_TIMEOUT, starts anew.
restartTimer(s) == [ s EXCEPT !.timerActive = TRUE, !.timerLeft = QuietTicks ]

\* Mutant: every prioritized query goes to the very front.
insertPrioritized_Front(pending, i, q) == InsertAt(pending, 0, q)

\* resolve(): m_queries_pending.insert( i++, q )
insertPrioritized(pending, i, q) == InsertAt(pending, i, q)

\* Pipeline::resolve( qlist, prioritized, temporaryQuery ): the foreach loop
\* from element k of qlist on, i being the loop's insertion index.
RECURSIVE resolveLoop(_, _, _, _, _, _)
resolveLoop(s, qlist, k, i, prioritized, temporaryQuery) ==
    IF k > Len(qlist) THEN s
    ELSE LET q == qlist[k]
             t == [ s EXCEPT !.qids = @ \cup {q} ]
         IN  IF alreadyPending(t, q)
             THEN resolveLoop(t, qlist, k + 1, i, prioritized, temporaryQuery)
             ELSE LET u == IF prioritized
                           THEN [ t EXCEPT !.pending = insertPrioritized(@, i, q) ]
                           ELSE [ t EXCEPT !.pending = Append(@, q) ]
                      v == IF temporaryQuery
                           THEN restartTimer([ u EXCEPT !.temporary = Append(@, q) ])
                           ELSE u
                  IN  resolveLoop(v, qlist, k + 1, IF prioritized THEN i + 1 ELSE i,
                                  prioritized, temporaryQuery)

\* Pipeline::resolve( qlist, prioritized, temporaryQuery ) on thread t, to the
\* end of its critical section: shuntNext() is called next.
resolve(s, t, qlist, prioritized, temporaryQuery) ==
    [ resolveLoop(s, qlist, 1, 0, prioritized, temporaryQuery) EXCEPT !.threads[t] =
          [ Idle EXCEPT !.pc = "shuntNext", !.from = "resolve" ] ]

\* Pipeline::onTemporaryQueryTimer(): one critical section.
onTemporaryQueryTimer(s) ==
    [ s EXCEPT !.timerActive = FALSE,
               !.timerLeft = 0,
               !.qids = @ \ Range(s.temporary),
               !.temporary = << >> ]

\* Pipeline::start() on thread t: m_running = true; shuntNext() is called
\* next.
start(s, t) ==
    [ s EXCEPT !.running = TRUE,
               !.threads[t] = [ Idle EXCEPT !.pc = "shuntNext", !.from = "start" ] ]

\* Pipeline::stop()
stop(s) == [ s EXCEPT !.running = FALSE ]

\* Pipeline::addResolver( r ): one critical section.
addResolver(s, r) ==
    [ s EXCEPT !.resolvers = Append(@, r),
               !.signals = @ \cup {"resolverAdded"} ]

\* Pipeline::removeResolver( r ): one critical section.
removeResolver(s, r) ==
    [ s EXCEPT !.resolvers = RemoveAll(@, r),
               !.signals = @ \cup {"resolverRemoved"} ]

\* ----------------------------------------------------------------- actions
\* Pipeline::Pipeline(): the state after construction.
Init ==
    /\ m_running = FALSE
    /\ \E n \in IdealThreadCounts :
           m_maxConcurrentQueries =
               qBound(DEFAULT_CONCURRENT_QUERIES, n, MAX_CONCURRENT_QUERIES)
    /\ m_resolvers = << >>
    /\ m_queries_pending = << >>
    /\ m_qids = {}
    /\ m_qidsState = << >>
    /\ m_qidsTimeout = {}
    /\ m_queries_temporary = << >>
    /\ timerActive = FALSE
    /\ resolvedBy = [ q \in 1 .. NumCapQueries |-> << >> ]
    /\ resolveFinished = [ q \in 1 .. NumCapQueries |-> FALSE ]
    /\ results = [ q \in 1 .. NumCapQueries |-> {} ]
    /\ shuntCalls = [ q \in 1 .. NumCapQueries |-> 0 ]
    /\ shuntNextCalls = 0
    /\ timeoutCalls = [ q \in 1 .. NumCapQueries |-> 0 ]
    /\ signals = {}
    /\ notified = {}
    /\ timerLeft = 0
    /\ answered = [ q \in 1 .. NumCapQueries |-> {} ]
    /\ expired = [ q \in 1 .. NumCapQueries |-> {} ]
    /\ threads = [ t \in Threads |-> Idle ]

\* Thread t calls start() and sets m_running.
Start(t) ==
    /\ threads[t] = Idle
    /\ Commit(start(Cur, t))

Stop == Commit(stop(Cur))

\* A caller registers resolver r.
AddResolver(r) ==
    /\ WithinBounds(addResolver(Cur, r))
    /\ Commit(addResolver(Cur, r))

RemoveResolver(r) == Commit(removeResolver(Cur, r))

\* Thread t calls resolve() and runs its critical section.
Resolve(t, qlist, prioritized, temporaryQuery) ==
    /\ threads[t] = Idle
    /\ WithinBounds(resolve(Cur, t, qlist, prioritized, temporaryQuery))
    /\ Commit(resolve(Cur, t, qlist, prioritized, temporaryQuery))

\* Thread t calls reportResults( qid, res ) and reads m_running.
ReportResults(t, qid, res) ==
    /\ threads[t] = Idle
    /\ Commit(reportResults(Cur, t, qid, res))

\* The event loop runs a posted shunt( q ), which reads m_running.
RunShunt(q) ==
    /\ threads[Loop] = Idle
    /\ shuntCalls[q] > 0
    /\ Commit(shunt([ Cur EXCEPT !.shuntCalls[q] = @ - 1 ], Loop, q))

\* The event loop runs a posted shuntNext(), which reads m_running.
RunShuntNext ==
    /\ threads[Loop] = Idle
    /\ shuntNextCalls > 0
    /\ Commit(shuntNext([ Cur EXCEPT !.shuntNextCalls = @ - 1 ], Loop))

\* A resolver's timeout elapses: the armed timer calls timeoutShunt( q ),
\* which reads m_running.
RunTimeoutShunt(q) ==
    /\ threads[Loop] = Idle
    /\ timeoutCalls[q] > 0
    /\ Commit(timeoutShunt([ Cur EXCEPT !.timeoutCalls[q] = @ - 1 ], Loop, q))

\* r->resolve( q ) comes back: on thread t resolver r, which q was dispatched
\* to and which has not answered yet, calls reportResults( q, res ).
Answer(t, q, r, res) ==
    /\ threads[t] = Idle
    /\ Contains(resolvedBy[q], r)
    /\ r \notin answered[q]
    /\ Commit(reportResults([ Cur EXCEPT !.answered[q] = @ \cup {r} ], t, q, res))

\* The timer armed when q was dispatched to resolver r fires.
Expire(q, r) ==
    /\ threads[Loop] = Idle
    /\ timeoutCalls[q] > 0
    /\ Contains(resolvedBy[q], r)
    /\ Timeout(r) > 0
    /\ r \notin expired[q]
    /\ Commit(timeoutShunt([ Cur EXCEPT !.timeoutCalls[q] = @ - 1,
                                        !.expired[q] = @ \cup {r} ], Loop, q))

\* Thread t calls shuntNext() at the end of resolve(), start() or shunt():
\* m_running is read.
ThreadShuntNext(t) ==
    /\ threads[t].pc = "shuntNext"
    /\ Commit(shuntNext(Cur, t))

\* Thread t, in shuntNext(), runs the critical section.
ThreadShuntNextLock(t) ==
    /\ threads[t].pc = "shuntNextLock"
    /\ Commit(shuntNextLock(Cur, t))

\* Thread t, in shunt(), reads q->resolvingFinished().
ThreadShuntFinished(t) ==
    /\ threads[t].pc = "shuntFinished"
    /\ Commit(shuntFinished(Cur, t))

\* Thread t, in shunt(), runs nextResolver( q ).
ThreadShuntNextResolver(t) ==
    /\ threads[t].pc = "shuntNextResolver"
    /\ Commit(shuntNextResolver(Cur, t))

\* Thread t, in shunt(), records the resolver and calls r->resolve( q ).
ThreadShuntResolve(t) ==
    /\ threads[t].pc = "shuntResolve"
    /\ Commit(shuntResolve(Cur, t))

\* Thread t, in shunt(), goes on after r->resolve( q ).
ThreadShunt(t) ==
    /\ threads[t].pc = "shunt"
    /\ Commit(shuntResolving(Cur, t))

\* Thread t, in timeoutShunt(), reads m_qidsTimeout.
ThreadTimeoutContains(t) ==
    /\ threads[t].pc = "timeoutContains"
    /\ Commit(timeoutContains(Cur, t))

\* Thread t, in reportResults(), reads m_qids.contains( qid ).
ThreadReportContains(t) ==
    /\ threads[t].pc = "reportContains"
    /\ Commit(reportContains(Cur, t))

\* Thread t, in reportResults(), looks the query up.
ThreadReportResults(t) ==
    /\ threads[t].pc = "report"
    /\ Commit(reportResultsValue(Cur, t))

\* Thread t, in reportResults(), adds the results to the query.
ThreadReportAdd(t) ==
    /\ threads[t].pc = "reportAdd"
    /\ Commit(reportAdd(Cur, t))

\* Thread t, in reportResults(), reads whether the query is solved.
ThreadReportPlayable(t) ==
    /\ threads[t].pc = "reportPlayable"
    /\ Commit(reportPlayable(Cur, t))

\* Thread t runs the critical section of decQIDState().
ThreadDecQIDState(t) ==
    /\ threads[t].pc = "dec"
    /\ Commit(decQIDState(Cur, t))

\* Thread t takes m_mut in setQIDState() and returns from its handler.
ThreadSetQIDState(t) ==
    /\ threads[t].pc = "set"
    /\ Commit(setQIDState(done(Cur, t), threads[t].q, threads[t].state))

\* A thread that is inside shuntNext() takes its next step.
InShuntNext ==
    \/ \E t \in Threads : ThreadShuntNext(t)
    \/ \E t \in Threads : ThreadShuntNextLock(t)
    \/ \E t \in Threads : ThreadSetQIDState(t)

\* A thread that is inside shunt() takes its next step.
InShunt ==
    \/ \E t \in Threads : ThreadShuntFinished(t)
    \/ \E t \in Threads : ThreadShuntNextResolver(t)
    \/ \E t \in Threads : ThreadShuntResolve(t)
    \/ \E t \in Threads : ThreadShunt(t)

\* A thread that is inside reportResults() takes its next step: it looks the
\* query up.
InReportResults ==
    \/ \E t \in Threads : ThreadReportContains(t)
    \/ \E t \in Threads : ThreadReportResults(t)

\* A thread that is inside reportResults() with results takes its next step.
InAddResults ==
    \/ \E t \in Threads : ThreadReportAdd(t)
    \/ \E t \in Threads : ThreadReportPlayable(t)

\* A thread that is inside timeoutShunt() takes its next step.
InTimeoutShunt == \E t \in Threads : ThreadTimeoutContains(t)

\* A thread that is inside decQIDState() takes its next step.
InDecQIDState == \E t \in Threads : ThreadDecQIDState(t)

\* Time passes on the running m_temporaryQueryTimer.
Tick ==
    /\ timerActive
    /\ timerLeft > 0
    /\ Commit([ Cur EXCEPT !.timerLeft = @ - 1 ])

\* CLEANUP_TIMEOUT has elapsed on the running m_temporaryQueryTimer.
TemporaryQueryTimer ==
    /\ threads[Loop] = Idle
    /\ timerActive
    /\ timerLeft = 0
    /\ Commit(onTemporaryQueryTimer(Cur))

\* The query lists a caller may hand to resolve(): up to MaxBatch queries.
Batches(Q) == UNION { [ 1 .. n -> Q ] : n \in 0 .. MaxBatch }

\* A query is known to the pipeline or was resolved before.
Used(q) ==
    \/ q \in m_qids
    \/ Contains(m_queries_pending, q)
    \/ resolveFinished[q]
    \/ \E t \in Threads : threads[t].q = q

\* Callers take fresh queries in the order of their ids.
InOrder(qlist) ==
    \A k \in 1 .. Len(qlist) :
        IF qlist[k] = 1 THEN TRUE
        ELSE IF Used(qlist[k] - 1) THEN TRUE
        ELSE IF k > 1 THEN qlist[k - 1] = qlist[k] - 1
        ELSE FALSE

\* Callers take fresh queries, in the order of their ids.
Fresh(q) == ~Used(q) /\ InOrder(<< q >>)

\* Callers submit fresh queries, in the order of their ids, and queries that
\* are still pending.
Queueable(qlist) ==
    /\ InOrder(qlist)
    /\ \A k \in 1 .. Len(qlist) :
           ~Used(qlist[k]) \/ Contains(m_queries_pending, qlist[k])

\* One request at a time: no other query is known to the pipeline.
Alone(q) == \A p \in Queries \ {q} : ~Used(p)

\* A resolver object is registered once.
Unregistered(r) == ~Contains(m_resolvers, r)

\* No request was submitted yet.
NoRequests == \A q \in Queries : ~Used(q)

\* The threads that call into the pipeline from outside its event loop enter
\* in the order of their numbers: they are interchangeable.
Caller(t) ==
    /\ t # Loop
    /\ threads[t] = Idle
    /\ \A u \in Threads : (u # Loop /\ u < t) => threads[u] # Idle

\* One thread besides the pipeline's, the first after it: the calls that are
\* made on it come one at a time.
Worker(t) == t = Loop + 1 /\ threads[t] = Idle

\* Resolvers: one request, three resolvers coming and going, the pipeline
\* started before the request, answers without results and timeouts.
Next ==
    \/ ~m_running /\ NoRequests /\ Start(Loop)
    \/ \E r \in Resolvers : Unregistered(r) /\ AddResolver(r)
    \/ \E r \in Resolvers : RemoveResolver(r)
    \/ \E t \in Threads : Caller(t) /\ Fresh(1) /\ Resolve(t, << 1 >>, FALSE, FALSE)
    \/ \E t \in Threads : Worker(t) /\ ReportResults(t, 1, {})
    \/ RunShunt(1)
    \/ RunShuntNext
    \/ RunTimeoutShunt(1)
    \/ InShuntNext
    \/ InShunt
    \/ InReportResults
    \/ InTimeoutShunt
    \/ InDecQIDState

Spec == Init /\ [][Next]_vars

\* The pending queue: batches and prioritized submissions of three queries
\* while no resolver is registered, so that a dispatch pass finalizes the
\* query it takes.
NextQueue ==
    \/ ~m_running /\ Start(Loop)
    \/ \E t \in Threads, qlist \in Batches(QueueQueries), p \in BOOLEAN :
           Caller(t) /\ Queueable(qlist) /\ Resolve(t, qlist, p, FALSE)
    \/ RunShuntNext
    \/ InShuntNext

SpecQueue == Init /\ [][NextQueue]_vars

\* The concurrency cap: more queries than m_maxConcurrentQueries, submitted
\* one at a time, one resolver without a timeout that answers with nothing,
\* the requests it was handed in the order of their ids.
NextCap ==
    \/ ~m_running /\ Start(Loop)
    \/ Unregistered(2) /\ NoRequests /\ AddResolver(2)
    \/ \E t \in Threads, q \in CapQueries :
           Caller(t) /\ Fresh(q) /\ Resolve(t, << q >>, FALSE, FALSE)
    \/ \E t \in Threads, q \in CapQueries, r \in Resolvers :
           /\ Worker(t)
           /\ \A p \in CapQueries : p < q => p \notin DOMAIN m_qidsState
           /\ Answer(t, q, r, {})
    \/ \E q \in CapQueries : RunShunt(q)
    \/ RunShuntNext
    \/ InShuntNext
    \/ InShunt
    \/ InReportResults
    \/ InDecQIDState

SpecCap == Init /\ [][NextCap]_vars

\* Timeouts alone: the resolvers that declare a timeout are registered before
\* the first request and stay, no resolver ever reports, the pipeline is not
\* stopped, every request is submitted once.
NextLive ==
    \/ ~m_running /\ Start(Loop)
    \/ \E r \in Resolvers :
           Timeout(r) > 0 /\ Unregistered(r) /\ NoRequests /\ AddResolver(r)
    \/ \E t \in Threads, q \in Queries :
           Caller(t) /\ Fresh(q) /\ Resolve(t, << q >>, FALSE, FALSE)
    \/ \E q \in Queries : RunShunt(q)
    \/ RunShuntNext
    \/ \E q \in Queries : RunTimeoutShunt(q)
    \/ InShuntNext
    \/ InShunt
    \/ InTimeoutShunt
    \/ InDecQIDState

\* The event loop: a posted call runs or an armed timer fires.
EventLoop ==
    \/ RunShuntNext
    \/ \E q \in Queries : RunShunt(q)
    \/ \E q \in Queries : RunTimeoutShunt(q)

\* A thread that is in a handler goes on.
Running == InShuntNext \/ InShunt \/ InTimeoutShunt \/ InDecQIDState

\* The event loop does not stop while a posted call or an armed timer is left,
\* and no thread stops in the middle of a handler.
Fairness == WF_vars(EventLoop) /\ WF_vars(Running)

SpecLive == Init /\ [][NextLive]_vars /\ Fairness

\* Results: one request, the plain one or the full-text one, submitted once, two
\* resolvers of equal weight (one declares a timeout) registered before the
\* pipeline is started, and callers that report good and weak results for
\* any qid at any time.
NextResults ==
    \/ ~m_running /\ NoRequests /\ Start(Loop)
    \/ \E r \in {2, 3} : Unregistered(r) /\ ~m_running /\ AddResolver(r)
    \/ \E t \in Threads, q \in Queries :
           Caller(t) /\ m_running /\ NoRequests /\ Resolve(t, << q >>, FALSE, FALSE)
    \/ \E t \in Threads, q \in Queries, res \in SUBSET ResultIds :
           Worker(t) /\ ReportResults(t, q, res)
    \/ \E q \in Queries : RunShunt(q)
    \/ RunShuntNext
    \/ \E q \in Queries : RunTimeoutShunt(q)
    \/ InShuntNext
    \/ InShunt
    \/ InReportResults
    \/ InAddResults
    \/ InTimeoutShunt
    \/ InDecQIDState

SpecResults == Init /\ [][NextResults]_vars

\* ------------------------------------------------------------------ claims
InFlight == DOMAIN m_qidsState

NoDuplicates(seq) == \A i, j \in 1 .. Len(seq) : seq[i] = seq[j] => i = j

IsPrefix(a, b) == Len(a) <= Len(b) /\ SubSeq(b, 1, Len(a)) = a

\* The registered resolvers a query was not dispatched to.
Untried(q) == { i \in 1 .. Len(m_resolvers) : ~Contains(resolvedBy[q], m_resolvers[i]) }

\* The earliest registered among the untried resolvers of greatest weight.
BestUntried(q) ==
    m_resolvers[CHOOSE i \in Untried(q) :
        \A j \in Untried(q) :
            \/ Weight(m_resolvers[j]) < Weight(m_resolvers[i])
            \/ Weight(m_resolvers[j]) = Weight(m_resolvers[i]) /\ i <= j]

\* C2: the resolver that nextResolver() chooses in shunt() is the untried
\* registered resolver of greatest weight, the earliest registered among
\* equals; a resolver is chosen whenever an untried registered resolver
\* exists, and the resolver the request is then dispatched to is the one
\* chosen.
C2_BestResolverChosen ==
    [][\A q \in Queries, t \in Threads :
          /\ ( /\ threads[t].pc = "shuntNextResolver"
               /\ threads[t].q = q
               /\ Untried(q) # {}
               /\ ThreadShuntNextResolver(t) ) =>
                 /\ threads'[t].pc = "shuntResolve"
                 /\ threads'[t].r = BestUntried(q)
          /\ threads'[t].pc = "shuntResolve" => threads'[t].r # 0
          /\ ( /\ threads[t].pc = "shuntResolve"
               /\ threads[t].q = q
               /\ ThreadShuntResolve(t) ) =>
                 /\ resolvedBy'[q] = Append(resolvedBy[q], threads[t].r)
                 /\ threads'[t].pc = "shunt"
          /\ resolvedBy'[q] # resolvedBy[q] =>
                 \E u \in Threads :
                     threads[u].pc = "shuntResolve" /\ threads[u].q = q]_vars

\* C2 witness: a dispatch chose the first registered of two untried
\* resolvers of equal weight: r->resolve( q ) has been called.
C2_Witness ==
    \E q \in Queries :
        /\ threads[Loop].pc = "shunt"
        /\ threads[Loop].q = q
        /\ \E i, j \in 1 .. Len(m_resolvers) :
               /\ i < j
               /\ m_resolvers[i] = threads[Loop].r
               /\ m_resolvers[i] # m_resolvers[j]
               /\ Weight(m_resolvers[j]) = Weight(m_resolvers[i])
               /\ ~Contains(resolvedBy[q], m_resolvers[j])

\* C3: a request's attempted resolvers only grow and hold no resolver twice.
C3_NoRepeatedResolver ==
    [][\A q \in Queries :
          /\ IsPrefix(resolvedBy[q], resolvedBy'[q])
          /\ NoDuplicates(resolvedBy'[q])]_vars

\* C3 witness: a request that tried every registered resolver holds a budget
\* slot with a further attempt posted.
C3_Witness ==
    \E q \in Queries :
        /\ m_running
        /\ Len(resolvedBy[q]) >= 2
        /\ m_resolvers # << >>
        /\ Untried(q) = {}
        /\ q \in InFlight
        /\ shuntCalls[q] > 0
        /\ ~resolveFinished[q]

\* The critical section of a dispatch pass takes a query off the pending
\* queue: a budget slot is free.
SlotFree == Cardinality(InFlight) < m_maxConcurrentQueries

\* The queries of a batch are distinct and none of them is pending.
NewBatch(qlist) ==
    /\ qlist # << >>
    /\ NoDuplicates(qlist)
    /\ \A k \in 1 .. Len(qlist) : ~Contains(m_queries_pending, qlist[k])

\* The pending queue a batch of new queries makes: at the front in the order
\* of submission when prioritized, at the back otherwise.
Queued(qlist, prioritized) ==
    IF prioritized THEN qlist \o m_queries_pending ELSE m_queries_pending \o qlist

\* Thread t enters resolve() and runs its loop.
Submits(t) ==
    /\ threads[t].pc = "idle"
    /\ threads'[t].pc = "shuntNext"
    /\ threads'[t].from = "resolve"

\* The thread that runs now is in resolve(), past the loop, in the
\* shuntNext() that ends it: it reads m_running.
EndsResolveRead ==
    \E t \in Threads : threads[t].from = "resolve" /\ ThreadShuntNext(t)

\* The thread that runs now is in resolve(), past the loop, in the
\* shuntNext() that ends it: it found the pipeline running and runs the
\* critical section.
EndsResolveLock ==
    \E t \in Threads : threads[t].from = "resolve" /\ ThreadShuntNextLock(t)

\* The thread that runs now is in the shuntNext() that ends resolve().
EndsResolve == EndsResolveRead \/ EndsResolveLock

\* C4, as stated: resolve() of new queries q1..qn makes the pending queue
\* q1..qn followed by its previous contents when prioritized, and its previous
\* contents followed by q1..qn otherwise, and leaves it so when it returns.
C4_Original ==
    /\ [][\A t \in Threads :
             Submits(t) => \A qlist \in Batches(QueueQueries), p \in BOOLEAN :
             (NewBatch(qlist) /\ Resolve(t, qlist, p, FALSE)) =>
                 m_queries_pending' = Queued(qlist, p)]_vars
    /\ [][EndsResolve => m_queries_pending' = m_queries_pending]_vars

\* C4, amended: the loop of resolve() makes the pending queue that queue, and
\* the dispatch pass that ends resolve() takes its first element when it
\* found the pipeline running and finds a budget slot free.
C4_QueueOrder ==
    /\ [][\A t \in Threads :
             Submits(t) => \A qlist \in Batches(QueueQueries), p \in BOOLEAN :
             (NewBatch(qlist) /\ Resolve(t, qlist, p, FALSE)) =>
                 m_queries_pending' = Queued(qlist, p)]_vars
    /\ [][EndsResolveRead => m_queries_pending' = m_queries_pending]_vars
    /\ [][EndsResolveLock =>
             m_queries_pending' =
                 IF SlotFree /\ m_queries_pending # << >>
                 THEN Tail(m_queries_pending) ELSE m_queries_pending]_vars

\* C4 witness: queries 2 and 3 stand, in this order, ahead of query 1, which
\* was pending before them, and the caller has yet to run the dispatch pass.
C4_Witness ==
    /\ m_queries_pending = << 2, 3, 1 >>
    /\ \E t \in Threads :
           threads[t].pc = "shuntNext" /\ threads[t].from = "resolve"

\* Every query of the batch is pending.
PendingBatch(qlist) ==
    /\ qlist # << >>
    /\ \A k \in 1 .. Len(qlist) : Contains(m_queries_pending, qlist[k])

\* C5, as stated: the pending queue holds no request twice, and resolve() of
\* requests that are pending leaves the pending queue unchanged, in its loop
\* and to its return.
C5_Original ==
    /\ [](NoDuplicates(m_queries_pending))
    /\ [][\A t \in Threads :
             Submits(t) => \A qlist \in Batches(QueueQueries), p \in BOOLEAN :
             (PendingBatch(qlist) /\ Resolve(t, qlist, p, FALSE)) =>
                 m_queries_pending' = m_queries_pending]_vars
    /\ [][EndsResolve => UNCHANGED m_queries_pending]_vars

\* C5, amended: the pending queue holds no request twice, and resolve() of
\* requests that are pending inserts and moves nothing: its loop leaves the
\* queue unchanged, and the dispatch pass that ends resolve() takes at most
\* the first element, and only when it found the pipeline running.
C5_NoDuplicatePending ==
    /\ [](NoDuplicates(m_queries_pending))
    /\ [][\A t \in Threads :
             Submits(t) => \A qlist \in Batches(QueueQueries), p \in BOOLEAN :
             (PendingBatch(qlist) /\ Resolve(t, qlist, p, FALSE)) =>
                 m_queries_pending' = m_queries_pending]_vars
    /\ [][EndsResolveRead => UNCHANGED m_queries_pending]_vars
    /\ [][EndsResolveLock =>
             \/ UNCHANGED m_queries_pending
             \/ SlotFree /\ m_queries_pending # << >>
                    /\ m_queries_pending' = Tail(m_queries_pending)]_vars

\* C5 witness: two requests are pending with a free slot, and a caller is in
\* resolve(), about to run the critical section of the dispatch pass.
C5_Witness ==
    /\ SlotFree
    /\ Len(m_queries_pending) >= 2
    /\ \E t \in Threads :
           threads[t].pc = "shuntNextLock" /\ threads[t].from = "resolve"

\* C1: the number of request ids in m_qidsState never exceeds
\* m_maxConcurrentQueries.
C1_BudgetWithinCap == Cardinality(InFlight) <= m_maxConcurrentQueries

\* Thread t takes request q off the pending queue in a dispatch pass.
Takes(t, q) ==
    /\ threads'[t].pc = "set"
    /\ threads'[t].from = "shuntNext"
    /\ threads'[t].q = q
    /\ threads[t].pc # "set"

Finalized(q) ==
    /\ resolveFinished[q]
    /\ q \notin InFlight
    /\ ~Contains(m_queries_pending, q)

\* C8: with the pipeline running, the registry unchanged and every resolver
\* declaring a timeout, every submitted request is finalized in the end
\* though no resolver reports; a timeout that fires on the last unit of the
\* budget (the only unit when one resolver is registered) finalizes the
\* request and adds no result.
C8_TimeoutsFinalize ==
    /\ \A q \in Queries :
           (m_running /\ (Contains(m_queries_pending, q) \/ q \in InFlight))
               ~> Finalized(q)
    /\ [][\A q \in Queries :
             /\ ( /\ threads[Loop].pc = "timeoutContains"
                  /\ threads[Loop].q = q
                  /\ q \in m_qidsTimeout
                  /\ ThreadTimeoutContains(Loop) ) =>
                    threads'[Loop].pc = "dec"
             /\ ( /\ threads[Loop].pc = "dec"
                  /\ threads[Loop].q = q
                  /\ q \in InFlight
                  /\ m_qidsState[q] = 1
                  /\ ThreadDecQIDState(Loop) ) =>
                    /\ threads'[Loop].pc = "set"
                    /\ threads'[Loop].q = q
                    /\ threads'[Loop].state = 0
             /\ ( /\ threads[Loop].pc = "set"
                  /\ threads[Loop].q = q
                  /\ threads[Loop].state = 0
                  /\ ThreadSetQIDState(Loop) ) =>
                    /\ q \notin InFlight'
                    /\ resolveFinished'[q]
                    /\ results'[q] = {}]_vars

\* C8 witness: with one resolver registered a request was dispatched to it,
\* its timer fired and the request is finalized without a result.
C8_Witness ==
    \E q \in Queries :
        /\ Len(m_resolvers) = 1
        /\ resolvedBy[q] = m_resolvers
        /\ timeoutCalls[q] = 0
        /\ q \in notified
        /\ Finalized(q)
        /\ results[q] = {}

\* The step finalizes request q and invokes no resolver.
FinalizedUnattempted(q) ==
    /\ q \in notified'
    /\ q \notin InFlight'
    /\ q \notin m_qidsTimeout'
    /\ resolvedBy' = resolvedBy
    /\ "resolving" \notin signals'
    /\ shuntNextCalls' > 0

\* C17: a request that a dispatch pass takes off the pending queue while no
\* resolver is registered, and a request whose posted attempt finds every
\* registered resolver tried, is finalized without a resolver being invoked:
\* it is notified, holds no budget slot, awaits no timeout, and a dispatch
\* pass is posted.
C17_NoResolverFinalizes ==
    [][\A q \in Queries :
          /\ \A t \in Threads :
                 /\ (m_resolvers = << >> /\ Takes(t, q)) => threads'[t].state = 0
                 /\ ( /\ threads[t].pc = "shuntNextResolver"
                      /\ threads[t].q = q
                      /\ Untried(q) = {}
                      /\ ThreadShuntNextResolver(t) ) =>
                        /\ threads'[t].pc = "set"
                        /\ threads'[t].from = "shunt"
                        /\ threads'[t].q = q
                        /\ threads'[t].state = 0
                 /\ ( /\ threads[t].pc = "set"
                      /\ threads[t].from \in { "shuntNext", "shunt" }
                      /\ threads[t].q = q
                      /\ threads[t].state = 0
                      /\ ThreadSetQIDState(t) ) => FinalizedUnattempted(q)]_vars

\* C17 witness: on a running pipeline with no resolver registered a request
\* has just been finalized, with no attempt made and a dispatch pass posted.
C17_Witness ==
    \E q \in Queries :
        /\ m_running
        /\ m_resolvers = << >>
        /\ q \in notified
        /\ resolvedBy[q] = << >>
        /\ q \notin InFlight
        /\ shuntNextCalls > 0

\* A request is solved: it is not a full-text query and has a good result.
Solved(q) == ~isFullTextQuery(q) /\ \E x \in results[q] : GoodResult(x)

\* C9: results that make a request that is not a full-text query playable
\* finalize it at once: reportResults() calls setQIDState( q, 0 ), which
\* takes the request out of m_qidsState and m_qidsTimeout and posts no
\* attempt; and a request that was dispatched, is solved and finalized is
\* dispatched to no further resolver.
C9_EarlySuccess ==
    [][\A q \in Queries :
          /\ \A t \in Threads :
                 /\ ( /\ threads[t].pc = "reportPlayable"
                      /\ threads[t].q = q
                      /\ Solved(q)
                      /\ ThreadReportPlayable(t) ) =>
                        /\ threads'[t].pc = "set"
                        /\ threads'[t].from = "reportResults"
                        /\ threads'[t].q = q
                        /\ threads'[t].state = 0
                 /\ ( /\ threads[t].pc = "set"
                      /\ threads[t].from = "reportResults"
                      /\ threads[t].q = q
                      /\ ThreadSetQIDState(t) ) =>
                        /\ q \notin InFlight'
                        /\ q \notin m_qidsTimeout'
                        /\ resolveFinished'[q]
                        /\ shuntCalls'[q] = shuntCalls[q]
          /\ (resolveFinished[q] /\ Solved(q) /\ resolvedBy[q] # << >>) =>
                 resolvedBy'[q] = resolvedBy[q]]_vars

\* C10: reportResults() for a qid that is not in m_qids changes nothing and
\* returns.
C10_StaleResultDropped ==
    [][\A t \in Threads :
          ( /\ threads[t].pc = "reportContains"
            /\ threads[t].q \notin m_qids
            /\ ThreadReportContains(t) ) =>
              /\ UNCHANGED << m_queries_pending, m_qids, m_qidsState,
                              m_qidsTimeout, m_queries_temporary, results,
                              resolvedBy, resolveFinished, shuntCalls,
                              shuntNextCalls, timeoutCalls >>
              /\ signals' = {}
              /\ notified' = {}
              /\ threads'[t] = Idle]_vars

\* C10 witness: a request that was finalized with results is no longer in
\* m_qids, and a thread that reports results for it found the pipeline
\* running and is about to look its qid up.
C10_Witness ==
    \E q \in Queries, t \in Threads :
        /\ resolveFinished[q]
        /\ results[q] # {}
        /\ q \notin m_qids
        /\ threads[t].pc = "reportContains"
        /\ threads[t].q = q
        /\ threads[t].res # {}

\* Stop and start: the resolvers are registered before the first request and
\* stay, every request is submitted once; the resolver that declares no
\* timeout answers once, with nothing or with a good result, the one that
\* declares a timeout is left to time out.
NextStop ==
    \/ ~m_running /\ Start(Loop)
    \/ m_running /\ Stop
    \/ \E r \in {2, 3} : Unregistered(r) /\ NoRequests /\ AddResolver(r)
    \/ \E t \in Threads, q \in Queries :
           Caller(t) /\ Fresh(q) /\ Resolve(t, << q >>, FALSE, FALSE)
    \/ \E t \in Threads, q \in Queries, r \in Resolvers, res \in {{}, {1}} :
           Caller(t) /\ Timeout(r) = 0 /\ Answer(t, q, r, res)
    \/ \E q \in Queries, r \in Resolvers : Expire(q, r)
    \/ \E q \in Queries : RunShunt(q)
    \/ RunShuntNext
    \/ InShuntNext
    \/ InShunt
    \/ InReportResults
    \/ InAddResults
    \/ InTimeoutShunt
    \/ InDecQIDState

\* The event loop of NextStop, and the resolvers' answers.
EventLoopStop ==
    \/ RunShuntNext
    \/ \E q \in Queries : RunShunt(q)
    \/ \E q \in Queries, r \in Resolvers : Expire(q, r)

Answers ==
    \E t \in Threads, q \in Queries, r \in Resolvers, res \in {{}, {1}} :
        Caller(t) /\ Timeout(r) = 0 /\ Answer(t, q, r, res)

\* A thread that is in a handler goes on.
RunningStop ==
    \/ InShuntNext
    \/ InShunt
    \/ InReportResults
    \/ InAddResults
    \/ InTimeoutShunt
    \/ InDecQIDState

\* The event loop does not stop while a posted call or an armed timer is left,
\* a resolver that was asked answers, and no thread stops in the middle of a
\* handler.
FairnessStop == WF_vars(EventLoopStop) /\ WF_vars(Answers) /\ WF_vars(RunningStop)

SpecStop == Init /\ [][NextStop]_vars /\ FairnessStop

\* C6: idle is emitted only by a running pipeline whose pending queue and
\* m_qidsState are both empty.
C6_IdleOnlyWhenEmpty ==
    "idle" \in signals =>
        m_running /\ m_queries_pending = << >> /\ InFlight = {}

\* A thread takes a step of reportResults(), timeoutShunt(), shuntNext(),
\* shunt() or of what they call, decQIDState() and setQIDState().
InHandler ==
    \E t \in Threads :
        /\ threads[t].pc # "idle"
        /\ threads'[t] # threads[t]

\* C11: while m_running is false, a call of reportResults(), a timeout that
\* fires, a dispatch pass and shunt() change neither the pending queue,
\* m_qids, m_qidsState, m_qidsTimeout nor any request's results or attempted
\* resolvers, invoke no resolver and emit no signal: the calls that begin
\* return at once, and the calls in progress do nothing more.
C11_StoppedNoOp ==
    /\ [][~m_running =>
             \A q \in Queries :
                 ( \/ RunShuntNext
                   \/ RunShunt(q)
                   \/ \E r \in Resolvers : Expire(q, r)
                   \/ \E t \in Threads, r \in Resolvers, res \in SUBSET ResultIds :
                          threads[t] = Idle /\ Answer(t, q, r, res) ) =>
                     /\ UNCHANGED << m_queries_pending, m_qids, m_qidsState,
                                     m_qidsTimeout, m_queries_temporary, results,
                                     resolvedBy, resolveFinished, threads >>
                     /\ signals' = {}
                     /\ notified' = {}]_vars
    /\ [][(~m_running /\ InHandler) =>
             /\ UNCHANGED << m_queries_pending, m_qids, m_qidsState,
                             m_qidsTimeout, m_queries_temporary, results,
                             resolvedBy, resolveFinished >>
             /\ signals' = {}
             /\ notified' = {}]_vars

\* C19: if the pipeline is in the end started and left running, every
\* request that holds a budget slot, also one that held it while the pipeline
\* was stopped, gives it up in the end.
C19_RestartFrees ==
    (<>[]m_running) =>
        \A q \in Queries : (q \in InFlight) ~> (q \notin InFlight)

\* The callers of resolve() keep pace with the event loop: they submit while
\* few of the calls posted to it wait.
KeepsUp ==
    /\ shuntNextCalls < MaxShuntNextCalls
    /\ \A q \in Queries : shuntCalls[q] < MaxShuntCalls

\* Temporary requests: one resolver is registered before the first request,
\* request 1 is submitted as a temporary request any number of times, before
\* and after the pipeline is started, the others once and not as temporary
\* ones, every resolver answers with nothing, and time passes on the
\* reaper's timer.
NextTemp ==
    \/ ~m_running /\ Start(Loop)
    \/ Unregistered(2) /\ NoRequests /\ AddResolver(2)
    \/ \E t \in Threads : Worker(t) /\ KeepsUp /\ Resolve(t, << 1 >>, FALSE, TRUE)
    \/ \E t \in Threads, q \in Queries \ {1} :
           Worker(t) /\ m_running /\ Fresh(q) /\ Resolve(t, << q >>, FALSE, FALSE)
    \/ \E t \in Threads, q \in Queries, r \in Resolvers :
           Worker(t) /\ Answer(t, q, r, {})
    \/ \E q \in Queries : RunShunt(q)
    \/ RunShuntNext
    \/ Tick
    \/ TemporaryQueryTimer
    \/ InShuntNext
    \/ InShunt
    \/ InReportResults
    \/ InDecQIDState

SpecTemp == Init /\ [][NextTemp]_vars

\* C12: a step that finalizes a request leaves it outside m_qidsState and
\* m_qidsTimeout, and leaves it in m_qids if and only if it is in
\* m_queries_temporary.
C12_FinalizeLedger ==
    [][\A q \in Queries :
          q \in notified' =>
              /\ q \notin InFlight'
              /\ q \notin m_qidsTimeout'
              /\ q \in m_qids' <=> Contains(m_queries_temporary', q)]_vars

\* C12 witness: a temporary request that was dispatched has just been
\* finalized and is in the ledger, after a request that is not temporary was
\* finalized and left it.
C12_Witness ==
    \E q, p \in Queries :
        /\ q \in notified
        /\ resolvedBy[q] # << >>
        /\ Contains(m_queries_temporary, q)
        /\ q \in m_qids
        /\ p # q
        /\ resolveFinished[p]
        /\ p \notin m_qids

\* C13: when the reaper's timer fires, m_queries_temporary is emptied and no
\* request that was in it is in m_qids afterwards; and every temporary
\* submission restarts the quiet period: the timer runs and has the whole of
\* CLEANUP_TIMEOUT to go, so that the reaper fires a whole quiet period after
\* the last temporary submission at the earliest.
C13_ReaperSweeps ==
    /\ [][TemporaryQueryTimer =>
             /\ m_queries_temporary' = << >>
             /\ \A q \in Range(m_queries_temporary) : q \notin m_qids']_vars
    /\ [][\A t \in Threads, q \in Queries :
             (Submits(t) /\ Resolve(t, << q >>, FALSE, TRUE)) =>
                 /\ timerActive'
                 /\ timerLeft' = QuietTicks]_vars

\* C14: m_qids holds every request that is pending, that holds a budget slot
\* or that is in m_queries_temporary.
C14_LedgerCovers ==
    \A q \in Queries :
        (Contains(m_queries_pending, q) \/ q \in InFlight
             \/ Contains(m_queries_temporary, q)) => q \in m_qids

\* Attempts: the pipeline is started and the resolvers (one that declares a
\* timeout, one that does not) are registered before the first request and
\* stay, every request is submitted once, request 1 as a temporary one, every
\* resolver answers once, with nothing or with a good result, and every armed
\* timer fires.
NextAttempts ==
    \/ ~m_running /\ NoRequests /\ Start(Loop)
    \/ \E r \in {2, 3} : Unregistered(r) /\ NoRequests /\ AddResolver(r)
    \/ \E t \in Threads, q \in Queries :
           Caller(t) /\ m_running /\ Fresh(q) /\ Resolve(t, << q >>, FALSE, q = 1)
    \/ \E t \in Threads, q \in Queries, r \in Resolvers, res \in {{}, {1}} :
           Caller(t) /\ Answer(t, q, r, res)
    \/ \E q \in Queries, r \in Resolvers : Expire(q, r)
    \/ \E q \in Queries : RunShunt(q)
    \/ RunShuntNext
    \/ InShuntNext
    \/ InShunt
    \/ InReportResults
    \/ InAddResults
    \/ InTimeoutShunt
    \/ InDecQIDState

SpecAttempts == Init /\ [][NextAttempts]_vars

\* No thread is inside a handler of the pipeline.
Quiet == \A t \in Threads : threads[t] = Idle

\* No thread but t is inside a handler of the pipeline.
QuietBut(t) == \A u \in Threads \ {t} : threads[u] = Idle

\* C15: a timer that fires for an attempt whose answer was delivered and
\* processed is a no-op: when every timer of the request that has fired
\* belongs to an attempt that was answered and no other handler is running,
\* timeoutShunt() finds the request not awaited and returns, or the request
\* holds no budget that decQIDState() could take a unit off.
C15_StaleTimeoutNoOp ==
    [][\A q \in Queries :
          ( /\ threads[Loop].pc = "timeoutContains"
            /\ threads[Loop].q = q
            /\ QuietBut(Loop)
            /\ expired[q] \subseteq answered[q]
            /\ ThreadTimeoutContains(Loop) ) =>
              threads'[Loop] = Idle \/ q \notin InFlight]_vars

\* The attempts of a request that have ended, by answer or by timeout.
Ended(q) == { r \in Range(resolvedBy[q]) : r \in answered[q] \cup expired[q] }

\* C16: with the registry unchanged, whenever no handler is running the
\* budget of a request in flight is the number of registered resolvers less
\* the attempts that have ended, and a request that is not solved is
\* finalized only when every registered resolver was attempted and has
\* answered or timed out.
C16_OneUnitPerAttempt ==
    /\ [](\A q \in Queries :
             (Quiet /\ q \in InFlight) =>
                 m_qidsState[q] = Len(m_resolvers) - Cardinality(Ended(q)))
    /\ [][\A q \in Queries :
             (q \in notified' /\ ~Solved(q)') =>
                 Range(m_resolvers) \subseteq Ended(q)']_vars

\* C18: onResolvingFinished() is called at most once for a request that was
\* submitted once.
C18_FinishedOnce ==
    [][\A q \in Queries : q \in notified' => ~resolveFinished[q]]_vars

\* C20: the read of the budget in decQIDState() and the write in
\* setQIDState() are as if atomic (the budget a thread is about to write is
\* one less than the budget the request has), so are the cap check in
\* shuntNext() and the insert in setQIDState() (a thread about to insert
\* finds a free slot), and no finalized request holds a budget slot.
C20_AsIfAtomic ==
    /\ \A t \in Threads :
           /\ (threads[t].pc = "set" /\ threads[t].from = "decQIDState") =>
                  /\ threads[t].q \in InFlight
                  /\ m_qidsState[threads[t].q] = threads[t].state + 1
           /\ (threads[t].pc = "set" /\ threads[t].from = "shuntNext") =>
                  Cardinality(InFlight) < m_maxConcurrentQueries
    /\ \A q \in Queries : resolveFinished[q] => q \notin InFlight

====
